---- MODULE Spec2Model ----
(***************************************************************************)
(* Model of package singlecache (src/timesf.go): a singleflight Group      *)
(* whose registered calls stop accepting joiners after a validity time.    *)
(*                                                                         *)
(* Callers of Do and DoChan are numbered in the order in which they take   *)
(* g.mu; each makes one invocation.  A call is identified by the caller    *)
(* that created it: call c is the *call allocated by caller c at           *)
(* timesf.go:67 or :98.  Forget is invoked by a separate goroutine, up to  *)
(* MaxForgets times.  A critical section of g.mu is one atomic step that   *)
(* follows a separate Lock step; what runs outside the lock (fn and        *)
(* wg.Done, wg.Wait, the return of Do) is a step of its own.               *)
(***************************************************************************)
EXTENDS Integers, Sequences, FiniteSets, TLC

\* ---- bounds ---------------------------------------------------------------
NumCallers == 3
NumKeys == 1
MaxClock == 1
MaxDur == 2
MaxForgets == 1

\* ---- program constants ----------------------------------------------------
\* time.Second, in the model's duration unit (half a second)
Second == 2
\* math.MaxInt64: larger than every clock reading; no arithmetic is done on it
MaxInt64 == 2147483647
\* the zero value of interface{} and of error
Nil == 0

Procs == 1..NumCallers
Keys == 1..NumKeys
Durations == 0..MaxDur

VARIABLES
  clock,      \* time.Now().Unix()
  mu,         \* g.mu: TRUE while locked
  m,          \* g.m: key -> call, a partial function
  t,          \* g.t: key -> valid time, a partial function
  pc,         \* pc[p]: position of caller p
  fpc,        \* position of the goroutine that calls Forget
  nforget,    \* number of Forget calls that have returned
  pkey,       \* key argument of caller p, set in its critical section
  attached,   \* the local c of caller p: the call it joined or created
  ret,        \* return value of Do: <<v, err, shared>>
  sink,       \* the channel made by DoChan of caller p: the Results sent on it
  wg,         \* c.wg counter
  val,        \* c.val
  err,        \* c.err
  forgotten,  \* c.forgotten
  dups,       \* c.dups
  chans,      \* c.chans, a sequence of channels (named by their DoChan caller)
  cpc,        \* position of the goroutine running doCall(c, ...)
  execs,      \* number of times the fn of call c has been invoked
  latest,     \* history: key -> <<call, valid time, validTime = 0>> of the
              \* call created last
  forgot      \* history: key -> the call and valid time removed by the last
              \* Forget, and the first caller of Do/DoChan after it

vars == <<clock, mu, m, t, pc, fpc, nforget, pkey, attached, ret, sink, wg,
          val, err, forgotten, dups, chans, cpc, execs, latest, forgot>>

callVars == <<wg, val, err, forgotten, dups, chans, cpc, execs>>

\* ---- helpers --------------------------------------------------------------
\* delete(map, key)
delete(f, k) == [x \in (DOMAIN f) \ {k} |-> f[x]]

\* map[key] = v
put(f, k, v) == [x \in (DOMAIN f) \cup {k} |-> IF x = k THEN v ELSE f[x]]

\* time.Now().Unix()
Now == clock

\* variant: a zero validTime is added to the clock like any other
getValidTimeNoSentinel(validTime) == Now + (validTime \div Second)

\* getValidTime, timesf.go:138-146
getValidTime(validTime) ==
  IF validTime = 0 THEN MaxInt64 ELSE Now + (validTime \div Second)

\* variant: a call is still joined at the second of its valid time
JoinableAtExpiry(k) ==
  k \in DOMAIN m /\ (IF k \in DOMAIN t THEN t[k] ELSE 0) >= Now

\* variant: the valid time is compared one second early
JoinableEarly(k) ==
  k \in DOMAIN m /\ (IF k \in DOMAIN t THEN t[k] ELSE 0) > Now + 1

\* the join test of Do and DoChan: g.m[key] exists and g.t[key] > now
Joinable(k) == k \in DOMAIN m /\ (IF k \in DOMAIN t THEN t[k] ELSE 0) > Now

\* fn(): the operation passed by caller c returns a value and an error of
\* its own: (v, nil), (nil, E) or (v, E), in turn
fn(c) ==
  IF c % 3 = 1 THEN <<c, Nil>> ELSE IF c % 3 = 2 THEN <<Nil, c>> ELSE <<c, c>>

\* variant: shared only from the second duplicate on
ResultOfSecondDup(c) == <<val[c], err[c], dups[c] > 1>>

\* Result{c.val, c.err, c.dups > 0}
ResultOf(c) == <<val[c], err[c], dups[c] > 0>>

\* a send on a channel of capacity 1 proceeds only into an empty buffer
RECURSIVE CanSend(_, _)
CanSend(chs, s) ==
  IF chs = << >> THEN TRUE
  ELSE Len(s[Head(chs)]) < 1
       /\ CanSend(Tail(chs),
                  [s EXCEPT ![Head(chs)] = Append(@, <<Nil, Nil, FALSE>>)])

\* variant: only the first channel of c.chans is sent to
DeliverFirstOnly(chs, r, s) ==
  IF chs = << >> THEN s ELSE [s EXCEPT ![Head(chs)] = Append(@, r)]

\* for _, ch := range c.chans { ch <- Result{...} }
RECURSIVE Deliver(_, _, _)
Deliver(chs, r, s) ==
  IF chs = << >> THEN s
  ELSE Deliver(Tail(chs), r, [s EXCEPT ![Head(chs)] = Append(@, r)])

\* variant: completion handling leaves the entry in place
EvictNever(f, c, k) == f

\* variant: the entry is deleted whether or not the call was forgotten
EvictAlways(f, c, k) == delete(f, k)

\* variant: the test of c.forgotten is inverted
EvictIfForgotten(f, c, k) == IF forgotten[c] THEN delete(f, k) ELSE f

\* if !c.forgotten { delete(g.m, key) }  (the same test guards delete(g.t, key))
Evict(f, c, k) == IF ~forgotten[c] THEN delete(f, k) ELSE f

\* history: p is the first caller of Do/DoChan on k since the last Forget(k)
Arrived(p, k) ==
  IF k \in DOMAIN forgot /\ forgot[k].next = Nil
  THEN [forgot EXCEPT ![k].next = p] ELSE forgot

\* history: Forget(k) has returned and no Do/DoChan has entered since
ForgotPending(k) == k \in DOMAIN forgot /\ forgot[k].next = Nil

\* wg.Wait() returns
wgDone(c) == wg[c] = 0

\* ---- initial state --------------------------------------------------------
Init ==
  /\ clock = 0
  /\ mu = FALSE
  /\ m = << >>
  /\ t = << >>
  /\ pc = [p \in Procs |-> "idle"]
  /\ fpc = "idle"
  /\ nforget = 0
  /\ pkey = << >>
  /\ attached = << >>
  /\ ret = << >>
  /\ sink = [p \in Procs |-> << >>]
  /\ wg = [c \in Procs |-> 0]
  /\ val = [c \in Procs |-> Nil]
  /\ err = [c \in Procs |-> Nil]
  /\ forgotten = [c \in Procs |-> FALSE]
  /\ dups = [c \in Procs |-> 0]
  /\ chans = [c \in Procs |-> << >>]
  /\ cpc = [c \in Procs |-> "none"]
  /\ execs = [c \in Procs |-> 0]
  /\ latest = << >>
  /\ forgot = << >>

\* ---- Do -------------------------------------------------------------------
\* timesf.go:51  g.mu.Lock()
DoLock(p) ==
  /\ pc[p] = "idle"
  /\ \A q \in Procs : q < p => pc[q] # "idle"
  /\ ~mu
  /\ mu' = TRUE
  /\ pc' = [pc EXCEPT ![p] = "Do"]
  /\ UNCHANGED <<fpc, nforget, clock, m, t, pkey, attached, ret, sink,
                 callVars, latest, forgot>>

\* timesf.go:56-62  the call exists and has not expired: c.dups++, unlock
DoJoin(p, k) ==
  /\ pc[p] = "Do"
  /\ Joinable(k)
  /\ dups' = [dups EXCEPT ![m[k]] = @ + 1]
  /\ mu' = FALSE
  /\ pc' = [pc EXCEPT ![p] = "Wait"]
  /\ pkey' = put(pkey, p, k)
  /\ attached' = put(attached, p, m[k])
  /\ forgot' = Arrived(p, k)
  /\ UNCHANGED <<fpc, nforget, clock, m, t, ret, sink, wg, val, err,
                 forgotten, chans, cpc, execs, latest>>

\* variant: doCall is entered with g.mu still held
DoCreateKeepsLock(p, k, d) ==
  /\ pc[p] = "Do"
  /\ ~Joinable(k)
  /\ wg' = [wg EXCEPT ![p] = @ + 1]
  /\ m' = put(m, k, p)
  /\ t' = put(t, k, getValidTime(d))
  /\ pc' = [pc EXCEPT ![p] = "doCall"]
  /\ cpc' = [cpc EXCEPT ![p] = "fn"]
  /\ execs' = [execs EXCEPT ![p] = @ + 1]
  /\ pkey' = put(pkey, p, k)
  /\ attached' = put(attached, p, p)
  /\ latest' = put(latest, k, <<p, getValidTime(d), d = 0>>)
  /\ forgot' = Arrived(p, k)
  /\ UNCHANGED <<mu, fpc, nforget, clock, ret, sink, val, err, forgotten,
                 dups, chans>>

\* timesf.go:67-74  new(call), wg.Add(1), register, unlock, enter doCall
DoCreate(p, k, d) ==
  /\ pc[p] = "Do"
  /\ ~Joinable(k)
  /\ wg' = [wg EXCEPT ![p] = @ + 1]
  /\ m' = put(m, k, p)
  /\ t' = put(t, k, getValidTime(d))
  /\ mu' = FALSE
  /\ pc' = [pc EXCEPT ![p] = "doCall"]
  /\ cpc' = [cpc EXCEPT ![p] = "fn"]
  /\ execs' = [execs EXCEPT ![p] = @ + 1]
  /\ pkey' = put(pkey, p, k)
  /\ attached' = put(attached, p, p)
  /\ latest' = put(latest, k, <<p, getValidTime(d), d = 0>>)
  /\ forgot' = Arrived(p, k)
  /\ UNCHANGED <<fpc, nforget, clock, ret, sink, val, err, forgotten, dups,
                 chans>>

\* variant: the joiner waits for the call created last for its key
DoWaitLatest(p) ==
  /\ pc[p] = "Wait"
  /\ wgDone(latest[pkey[p]][1])
  /\ ret' = put(ret, p, <<val[attached[p]], err[attached[p]], TRUE>>)
  /\ pc' = [pc EXCEPT ![p] = "done"]
  /\ UNCHANGED <<fpc, nforget, clock, mu, m, t, pkey, attached, sink,
                 callVars, latest, forgot>>

\* timesf.go:63-64  c.wg.Wait(); return c.val, c.err, true
DoWait(p) ==
  /\ pc[p] = "Wait"
  /\ wgDone(attached[p])
  /\ ret' = put(ret, p, <<val[attached[p]], err[attached[p]], TRUE>>)
  /\ pc' = [pc EXCEPT ![p] = "done"]
  /\ UNCHANGED <<fpc, nforget, clock, mu, m, t, pkey, attached, sink,
                 callVars, latest, forgot>>

\* timesf.go:74-76  doCall has returned; return c.val, c.err, c.dups > 0
DoReturn(p) ==
  /\ pc[p] = "doCall"
  /\ cpc[p] = "finished"
  /\ ret' = put(ret, p, ResultOf(p))
  /\ pc' = [pc EXCEPT ![p] = "done"]
  /\ UNCHANGED <<fpc, nforget, clock, mu, m, t, pkey, attached, sink,
                 callVars, latest, forgot>>

\* ---- DoChan ---------------------------------------------------------------
\* timesf.go:81-82  ch := make(chan Result, 1); g.mu.Lock()
DoChanLock(p) ==
  /\ pc[p] = "idle"
  /\ \A q \in Procs : q < p => pc[q] # "idle"
  /\ ~mu
  /\ mu' = TRUE
  /\ pc' = [pc EXCEPT ![p] = "DoChan"]
  /\ UNCHANGED <<fpc, nforget, clock, m, t, pkey, attached, ret, sink,
                 callVars, latest, forgot>>

\* variant: the joiner's channel is appended to c.chans twice
DoChanJoinTwice(p, k) ==
  /\ pc[p] = "DoChan"
  /\ Joinable(k)
  /\ dups' = [dups EXCEPT ![m[k]] = @ + 1]
  /\ chans' = [chans EXCEPT ![m[k]] = Append(Append(@, p), p)]
  /\ mu' = FALSE
  /\ pc' = [pc EXCEPT ![p] = "chan"]
  /\ pkey' = put(pkey, p, k)
  /\ attached' = put(attached, p, m[k])
  /\ forgot' = Arrived(p, k)
  /\ UNCHANGED <<fpc, nforget, clock, m, t, ret, sink, wg, val, err,
                 forgotten, cpc, execs, latest>>

\* timesf.go:87-95  join: c.dups++, append ch to c.chans, unlock, return ch
DoChanJoin(p, k) ==
  /\ pc[p] = "DoChan"
  /\ Joinable(k)
  /\ dups' = [dups EXCEPT ![m[k]] = @ + 1]
  /\ chans' = [chans EXCEPT ![m[k]] = Append(@, p)]
  /\ mu' = FALSE
  /\ pc' = [pc EXCEPT ![p] = "chan"]
  /\ pkey' = put(pkey, p, k)
  /\ attached' = put(attached, p, m[k])
  /\ forgot' = Arrived(p, k)
  /\ UNCHANGED <<fpc, nforget, clock, m, t, ret, sink, wg, val, err,
                 forgotten, cpc, execs, latest>>

\* timesf.go:98-106  &call{chans: {ch}}, wg.Add(1), register, unlock,
\* go g.doCall(c, key, fn), return ch
DoChanCreate(p, k, d) ==
  /\ pc[p] = "DoChan"
  /\ ~Joinable(k)
  /\ chans' = [chans EXCEPT ![p] = <<p>>]
  /\ wg' = [wg EXCEPT ![p] = @ + 1]
  /\ m' = put(m, k, p)
  /\ t' = put(t, k, getValidTime(d))
  /\ mu' = FALSE
  /\ pc' = [pc EXCEPT ![p] = "chan"]
  /\ cpc' = [cpc EXCEPT ![p] = "fn"]
  /\ execs' = [execs EXCEPT ![p] = @ + 1]
  /\ pkey' = put(pkey, p, k)
  /\ attached' = put(attached, p, p)
  /\ latest' = put(latest, k, <<p, getValidTime(d), d = 0>>)
  /\ forgot' = Arrived(p, k)
  /\ UNCHANGED <<fpc, nforget, clock, ret, sink, val, err, forgotten, dups>>

\* ---- doCall ---------------------------------------------------------------
\* variant: an operation that returned an error is invoked a second time
doCallFnRetry(c) ==
  /\ cpc[c] = "fn"
  /\ val' = [val EXCEPT ![c] = fn(c)[1]]
  /\ err' = [err EXCEPT ![c] = fn(c)[2]]
  /\ execs' = [execs EXCEPT ![c] = IF fn(c)[2] # Nil THEN @ + 1 ELSE @]
  /\ wg' = [wg EXCEPT ![c] = @ - 1]
  /\ cpc' = [cpc EXCEPT ![c] = "signalled"]
  /\ UNCHANGED <<fpc, nforget, clock, mu, m, t, pc, pkey, attached, ret, sink,
                 forgotten, dups, chans, latest, forgot>>

\* timesf.go:111-112  c.val, c.err = fn(); c.wg.Done()
doCallFn(c) ==
  /\ cpc[c] = "fn"
  /\ val' = [val EXCEPT ![c] = fn(c)[1]]
  /\ err' = [err EXCEPT ![c] = fn(c)[2]]
  /\ wg' = [wg EXCEPT ![c] = @ - 1]
  /\ cpc' = [cpc EXCEPT ![c] = "signalled"]
  /\ UNCHANGED <<fpc, nforget, clock, mu, m, t, pc, pkey, attached, ret, sink,
                 forgotten, dups, chans, execs, latest, forgot>>

\* timesf.go:114  g.mu.Lock()
doCallLock(c) ==
  /\ cpc[c] = "signalled"
  /\ ~mu
  /\ mu' = TRUE
  /\ cpc' = [cpc EXCEPT ![c] = "locked"]
  /\ UNCHANGED <<fpc, nforget, clock, m, t, pc, pkey, attached, ret, sink, wg,
                 val, err, forgotten, dups, chans, execs, latest, forgot>>

\* variant: a forgotten call skips the sends together with the eviction
doCallCompleteUnlessForgotten(c) ==
  /\ cpc[c] = "locked"
  /\ CanSend(chans[c], sink)
  /\ m' = Evict(m, c, pkey[c])
  /\ t' = Evict(t, c, pkey[c])
  /\ sink' = IF forgotten[c] THEN sink
             ELSE Deliver(chans[c], ResultOf(c), sink)
  /\ mu' = FALSE
  /\ cpc' = [cpc EXCEPT ![c] = "finished"]
  /\ UNCHANGED <<fpc, nforget, clock, pc, pkey, attached, ret, wg, val, err,
                 forgotten, dups, chans, execs, latest, forgot>>

\* timesf.go:115-122  evict unless forgotten, send to every channel, unlock
doCallComplete(c) ==
  /\ cpc[c] = "locked"
  /\ CanSend(chans[c], sink)
  /\ m' = Evict(m, c, pkey[c])
  /\ t' = Evict(t, c, pkey[c])
  /\ sink' = Deliver(chans[c], ResultOf(c), sink)
  /\ mu' = FALSE
  /\ cpc' = [cpc EXCEPT ![c] = "finished"]
  /\ UNCHANGED <<fpc, nforget, clock, pc, pkey, attached, ret, wg, val, err,
                 forgotten, dups, chans, execs, latest, forgot>>

\* ---- Forget ---------------------------------------------------------------
\* timesf.go:128  g.mu.Lock()
ForgetLock ==
  /\ fpc = "idle"
  /\ nforget < MaxForgets
  /\ ~mu
  /\ mu' = TRUE
  /\ fpc' = "Forget"
  /\ UNCHANGED <<clock, m, t, pc, nforget, pkey, attached, ret, sink,
                 callVars, latest, forgot>>

\* variant: Forget deletes from g.m only
ForgetKeepsTime(k) ==
  /\ fpc = "Forget"
  /\ forgotten' = IF k \in DOMAIN m THEN [forgotten EXCEPT ![m[k]] = TRUE]
                  ELSE forgotten
  /\ m' = delete(m, k)
  /\ mu' = FALSE
  /\ fpc' = "idle"
  /\ nforget' = nforget + 1
  /\ forgot' = put(forgot, k,
                   IF k \in DOMAIN m /\ k \in DOMAIN t
                   THEN [call |-> m[k], exp |-> t[k], next |-> Nil]
                   ELSE [call |-> Nil, exp |-> Nil, next |-> Nil])
  /\ UNCHANGED <<clock, t, pc, pkey, attached, ret, sink, wg, val, err, dups,
                 chans, cpc, execs, latest>>

\* variant: Forget marks the call and leaves the two map entries in place
ForgetKeepsEntry(k) ==
  /\ fpc = "Forget"
  /\ forgotten' = IF k \in DOMAIN m THEN [forgotten EXCEPT ![m[k]] = TRUE]
                  ELSE forgotten
  /\ mu' = FALSE
  /\ fpc' = "idle"
  /\ nforget' = nforget + 1
  /\ forgot' = put(forgot, k,
                   IF k \in DOMAIN m /\ k \in DOMAIN t
                   THEN [call |-> m[k], exp |-> t[k], next |-> Nil]
                   ELSE [call |-> Nil, exp |-> Nil, next |-> Nil])
  /\ UNCHANGED <<clock, m, t, pc, pkey, attached, ret, sink, wg, val, err,
                 dups, chans, cpc, execs, latest>>

\* timesf.go:129-134  mark the registered call forgotten, delete both entries
Forget(k) ==
  /\ fpc = "Forget"
  /\ forgotten' = IF k \in DOMAIN m THEN [forgotten EXCEPT ![m[k]] = TRUE]
                  ELSE forgotten
  /\ m' = delete(m, k)
  /\ t' = delete(t, k)
  /\ mu' = FALSE
  /\ fpc' = "idle"
  /\ nforget' = nforget + 1
  /\ forgot' = put(forgot, k,
                   IF k \in DOMAIN m /\ k \in DOMAIN t
                   THEN [call |-> m[k], exp |-> t[k], next |-> Nil]
                   ELSE [call |-> Nil, exp |-> Nil, next |-> Nil])
  /\ UNCHANGED <<clock, pc, pkey, attached, ret, sink, wg, val, err, dups,
                 chans, cpc, execs, latest>>

\* ---- the clock ------------------------------------------------------------
\* one second passes on the clock read by time.Now().Unix()
Tick ==
  /\ clock < MaxClock
  /\ clock' = clock + 1
  /\ UNCHANGED <<fpc, nforget, mu, m, t, pc, pkey, attached, ret, sink,
                 callVars, latest, forgot>>

Next ==
  \/ \E p \in Procs : DoLock(p)
  \/ \E p \in Procs, k \in Keys : DoJoin(p, k)
  \/ \E p \in Procs, k \in Keys, d \in Durations : DoCreate(p, k, d)
  \/ \E p \in Procs : DoWait(p)
  \/ \E p \in Procs : DoReturn(p)
  \/ \E p \in Procs : DoChanLock(p)
  \/ \E p \in Procs, k \in Keys : DoChanJoin(p, k)
  \/ \E p \in Procs, k \in Keys, d \in Durations : DoChanCreate(p, k, d)
  \/ \E c \in Procs : doCallFn(c)
  \/ \E c \in Procs : doCallLock(c)
  \/ \E c \in Procs : doCallComplete(c)
  \/ ForgetLock
  \/ \E k \in Keys : Forget(k)
  \/ Tick

Spec == Init /\ [][Next]_vars

\* a step of a goroutine that is already running: a critical section, the
\* return from wg.Wait, doCall taking g.mu.  Not the arrival of a caller or
\* of Forget, not the return of fn (doCallFn), not the clock.
Progress ==
  \/ \E p \in Procs, k \in Keys : DoJoin(p, k) \/ DoChanJoin(p, k)
  \/ \E p \in Procs, k \in Keys, d \in Durations :
       DoCreate(p, k, d) \/ DoChanCreate(p, k, d)
  \/ \E p \in Procs : DoWait(p) \/ DoReturn(p)
  \/ \E c \in Procs : doCallLock(c) \/ doCallComplete(c)
  \/ \E k \in Keys : Forget(k)

\* Scheduling: the running goroutines are not all suspended for ever while
\* one of them can take a step.  Every behaviour takes finitely many steps
\* (each step advances a program counter, nforget or the clock), so this
\* is the same as weak fairness of each goroutine's steps separately.
Fairness == WF_vars(Progress)

FairSpec == Spec /\ Fairness

\* ---- vocabulary of the properties -----------------------------------------
\* caller p holds g.mu inside Do or DoChan
InCS(p) == pc[p] \in {"Do", "DoChan"}

\* the step in which caller p of Do/DoChan(k, ...) joins or creates and unlocks
Enters(p, k) == InCS(p) /\ pc'[p] \notin {"Do", "DoChan"} /\ pkey'[p] = k

\* in this step caller p attaches to the existing call c and runs no operation
Joins(p, c) == c # p /\ attached'[p] = c /\ execs' = execs

\* in this step caller p creates its own call, registers it under k and
\* starts its own operation
Originates(p, k) ==
  /\ attached'[p] = p
  /\ execs' = [execs EXCEPT ![p] = @ + 1]
  /\ cpc'[p] = "fn"
  /\ k \in DOMAIN m' /\ m'[k] = p

\* caller p has its result: Do has returned or the channel holds a Result
HasResult(p) == p \in DOMAIN ret \/ Len(sink[p]) > 0
Received(p) == IF p \in DOMAIN ret THEN ret[p] ELSE sink[p][1]
Pair(r) == <<r[1], r[2]>>

\* callers that joined a call they did not create
Joiners == {p \in DOMAIN attached : attached[p] # p}

\* callers that created their call, and the joiners of a call
Originators == {c \in DOMAIN attached : attached[c] = c}
JoinersOf(c) == {p \in Joiners : attached[p] = c}

\* k is registered with a valid time greater than the current time
Unexpired(k) == k \in DOMAIN m /\ k \in DOMAIN t /\ t[k] > Now

\* ---- C1 -------------------------------------------------------------------
C1_JoinStep ==
  \A p \in Procs, k \in Keys :
    Enters(p, k) /\ Unexpired(k) => Joins(p, m[k])

C1_JoinerResult ==
  \A p \in Joiners :
    /\ execs[p] = 0
    /\ HasResult(p) =>
         /\ Received(p) = <<val[attached[p]], err[attached[p]], TRUE>>
         /\ Pair(Received(p)) = fn(attached[p])
         /\ HasResult(attached[p]) =>
              Pair(Received(attached[p])) = Pair(Received(p))

\* C1: a caller of Do or DoChan that finds a call registered for its key with
\* a valid time greater than the current time joins that call and runs no
\* operation of its own; every joiner receives the value and error that the
\* originator of its call receives, with shared = true.
C1_JoinersShareResult == []C1_JoinerResult /\ [][C1_JoinStep]_vars

\* a joiner and the originator of its call both hold their results
C1_Witness ==
  \E p \in Joiners :
    /\ HasResult(p) /\ HasResult(attached[p])
    /\ Received(p)[3] = TRUE

\* ---- C2 -------------------------------------------------------------------
\* call c was created last for key k, its operation is running, its valid
\* time has not been reached and Forget(k) has never been called
InWindow(c, k) ==
  /\ k \in DOMAIN latest /\ latest[k][1] = c /\ latest[k][2] > Now
  /\ cpc[c] = "fn"
  /\ k \notin DOMAIN forgot

C2_NoSecondExecution ==
  \A p \in Procs, k \in Keys :
    Enters(p, k) /\ (\E c \in Procs : InWindow(c, k)) => execs' = execs

\* C2: the operation of an originated call is executed exactly once, and a
\* caller that arrives on the key before the call's valid time, with no
\* Forget on the key and with the call's operation still running, starts no
\* further execution.
C2_OneExecutionPerWindow ==
  [](\A c \in Procs : execs[c] <= 1) /\ [][C2_NoSecondExecution]_vars

\* ---- C3 -------------------------------------------------------------------
C3_NextOriginates ==
  \A p \in Procs, k \in Keys :
    Enters(p, k) /\ ForgotPending(k) => Originates(p, k)

\* C3: once Forget(k) has returned, the key is absent from the registry, and
\* the next caller of Do or DoChan for k creates a call and starts its own
\* operation, whether or not the forgotten call is still running inside its
\* validity window.
C3_FreshAfterForget ==
  /\ [](\A k \in Keys : ForgotPending(k) => k \notin DOMAIN m)
  /\ [][C3_NextOriginates]_vars

\* the forgotten call is still running inside its validity window, and the
\* first caller after Forget runs its own operation concurrently
C3_Witness ==
  \E k \in DOMAIN forgot :
    /\ forgot[k].call # Nil /\ forgot[k].next # Nil
    /\ forgot[k].exp > Now
    /\ cpc[forgot[k].call] = "fn"
    /\ cpc[forgot[k].next] = "fn"
    /\ attached[forgot[k].next] = forgot[k].next

\* ---- C4 -------------------------------------------------------------------
\* the step in which Forget deletes and unlocks
ForgetStep == fpc = "Forget" /\ fpc' = "idle"

C4_ForgetFrame ==
  ForgetStep =>
    /\ val' = val /\ err' = err /\ wg' = wg
    /\ dups' = dups /\ chans' = chans
    /\ attached' = attached /\ sink' = sink /\ ret' = ret

C4_AttachedResult ==
  \A p \in DOMAIN attached :
    forgotten[attached[p]] =>
      /\ p \in DOMAIN ret => Pair(ret[p]) = fn(attached[p])
      /\ pc[p] = "chan" /\ cpc[attached[p]] = "finished" =>
           /\ Len(sink[p]) = 1
           /\ Pair(sink[p][1]) = fn(attached[p])

\* C4: Forget leaves the result, the duplicate count and the channel list of
\* every call as they are, and every caller attached to a forgotten call
\* (blocked in Do or holding a channel) receives the value and error that the
\* forgotten call's operation returned.
C4_ForgetKeepsWaiters == []C4_AttachedResult /\ [][C4_ForgetFrame]_vars

\* a Do joiner and a DoChan caller of a forgotten call hold its result
C4_Witness ==
  \E p \in Joiners : \E q \in DOMAIN attached :
    /\ attached[q] = attached[p] /\ q # p
    /\ forgotten[attached[p]]
    /\ p \in DOMAIN ret
    /\ Len(sink[q]) = 1

\* ---- C5 -------------------------------------------------------------------
\* the step in which doCall(c) evicts, sends and unlocks
CompleteStep(c) == cpc[c] = "locked" /\ cpc'[c] = "finished"

\* call c was forgotten by Forget(k) and has finished; the call created by the
\* next caller is registered for k, unexpired, with its operation running
ReplacementAlive(k) ==
  /\ k \in DOMAIN forgot
  /\ forgot[k].call # Nil /\ forgot[k].next # Nil
  /\ cpc[forgot[k].call] = "finished"
  /\ Unexpired(k) /\ m[k] = forgot[k].next
  /\ cpc[forgot[k].next] = "fn"

C5_CompletionKeepsEntry ==
  \A c \in Procs : CompleteStep(c) /\ forgotten[c] => m' = m /\ t' = t

C5_LateCallerJoins ==
  \A p \in Procs, k \in Keys :
    Enters(p, k) /\ ReplacementAlive(k) => Joins(p, forgot[k].next)

C5_ReplacementResult ==
  \A k \in DOMAIN forgot : \A p \in Joiners :
    attached[p] = forgot[k].next /\ HasResult(p) =>
      Pair(Received(p)) = fn(forgot[k].next)

ExpiredInFlight(k) ==
  /\ k \in DOMAIN m /\ k \in DOMAIN t /\ t[k] <= Now
  /\ cpc[m[k]] \in {"fn", "signalled"}

C6_ReplaceStep ==
  \A p \in Procs, k \in Keys :
    Enters(p, k) /\ ExpiredInFlight(k) =>
      /\ Originates(p, k)
      /\ cpc'[m[k]] = cpc[m[k]]
      /\ dups'[m[k]] = dups[m[k]] /\ chans'[m[k]] = chans[m[k]]
      /\ val'[m[k]] = val[m[k]] /\ err'[m[k]] = err[m[k]]
      /\ \A q \in DOMAIN attached : attached'[q] = attached[q]

C6_OwnCallResult ==
  \A p \in DOMAIN attached :
    HasResult(p) =>
      /\ Pair(Received(p)) = <<val[attached[p]], err[attached[p]]>>
      /\ Pair(Received(p)) = fn(attached[p])

\* C6: a caller that finds the registered call of its key expired, before that
\* call's completion handling, creates a new call that replaces it in the
\* registry and runs its own operation; the old call is left running with its
\* waiters and channels, and every caller receives the result of the call it
\* is attached to.
C6_ExpiryReplaces == []C6_OwnCallResult /\ [][C6_ReplaceStep]_vars

\* with no Forget, a newer call is registered and running while the older
\* call has not yet run its completion handling, and a joiner of the older
\* call has returned with the older call's result
C6_Witness ==
  \E old \in Originators, new \in Originators, p \in Joiners, k \in DOMAIN m :
    /\ forgot = << >>
    /\ old # new /\ m[k] = new /\ pkey[old] = k
    /\ cpc[old] = "signalled" /\ cpc[new] = "fn"
    /\ attached[p] = old /\ p \in DOMAIN ret
    /\ Pair(ret[p]) = fn(old)

\* ---- C7 -------------------------------------------------------------------
C7_NotRetained ==
  \A c \in Procs : cpc[c] = "finished" => \A k \in DOMAIN m : m[k] # c

C7_FreshStep ==
  \A p \in Procs, k \in Keys :
    Enters(p, k) =>
      /\ cpc[attached'[p]] # "finished"
      /\ k \notin DOMAIN m => Originates(p, k)

\* C7: a call whose completion handling has finished is not in the registry;
\* no caller is attached to such a call, and a caller that finds its key
\* absent creates a call and runs its own operation.
C7_NoJoinAfterCompletion == []C7_NotRetained /\ [][C7_FreshStep]_vars

\* a call for k has completed and been evicted, and a later caller holds
\* g.mu inside Do or DoChan with the key absent
C7_Witness ==
  \E c \in Procs, p \in Procs :
    /\ cpc[c] = "finished" /\ ~forgotten[c]
    /\ pkey[c] \notin DOMAIN m
    /\ InCS(p)

\* ---- C8 -------------------------------------------------------------------
C8_Shared ==
  /\ \A c \in Originators :
       HasResult(c) => (Received(c)[3] <=> JoinersOf(c) # {})
  /\ \A p \in Joiners : HasResult(p) => Received(p)[3] = TRUE
  /\ \A c \in Originators : \A i, j \in 1..Len(chans[c]) :
       Len(sink[chans[c][i]]) > 0 /\ Len(sink[chans[c][j]]) > 0 =>
         sink[chans[c][i]][1][3] = sink[chans[c][j]][1][3]

\* C8: the originator of a call gets shared = true exactly when some caller
\* joined the call, every joiner gets shared = true, and all channels of one
\* call carry the same shared value.
C8_SharedFlag == C8_Shared

\* one originator returned shared = true, another shared = false
C8_Witness ==
  \E c \in Originators, e \in Originators :
    /\ HasResult(c) /\ Received(c)[3] = TRUE
    /\ HasResult(e) /\ Received(e)[3] = FALSE

\* ---- C9 -------------------------------------------------------------------
C9_OneResult ==
  \A p \in Procs :
    /\ Len(sink[p]) <= 1
    /\ Len(sink[p]) = 1 => pc[p] = "chan" /\ cpc[attached[p]] = "finished"
    /\ pc[p] = "chan" /\ cpc[attached[p]] = "finished" => Len(sink[p]) = 1

C9_Kept == \A p \in Procs : Len(sink[p]) = 1 => sink'[p] = sink[p]

\* C9: the channel returned by DoChan receives no Result before the
\* completion handling of its call, exactly one when it has run, and never a
\* second one.
C9_ExactlyOneResult == []C9_OneResult /\ [][C9_Kept]_vars

\* the channel of a DoChan joiner of a forgotten call holds its one Result,
\* next to the channel of the call's originator
C9_Witness ==
  \E p \in Joiners :
    /\ pc[p] = "chan" /\ Len(sink[p]) = 1
    /\ forgotten[attached[p]]
    /\ Len(chans[attached[p]]) = 2
    /\ Len(sink[attached[p]]) = 1

\* ---- C10 ------------------------------------------------------------------
\* the operation of call c has returned an error
Failed(c) == cpc[c] \in {"signalled", "locked", "finished"} /\ err[c] # Nil

\* C10 as stated: whoever receives an error receives the nil value with it.
C10_ErrorWithNilValue ==
  \A p \in DOMAIN attached :
    HasResult(p) /\ Received(p)[2] # Nil => Received(p)[1] = Nil

C10_ErrorResult ==
  \A p \in DOMAIN attached :
    /\ Failed(attached[p]) /\ HasResult(p) =>
         /\ Received(p)[2] = err[attached[p]]
         /\ Pair(Received(p)) = fn(attached[p])
         /\ fn(attached[p])[1] = Nil => Received(p)[1] = Nil
    /\ execs[attached[p]] <= 1

C10_EvictStep ==
  \A c \in Procs :
    CompleteStep(c) /\ err[c] # Nil /\ ~forgotten[c] =>
      pkey[c] \notin DOMAIN m' /\ pkey[c] \notin DOMAIN t'

C10_NextStep ==
  \A p \in Procs, k \in Keys :
    Enters(p, k) /\ k \notin DOMAIN m => Originates(p, k)

\* C10 (amended): when the operation of a call returns error E, the
\* originator and every joiner receive E with the value the operation
\* returned next to it (nil when it returned nil); the operation is not run
\* again, the completion handling evicts the key as after a success, and the
\* next caller on the key runs its own operation.
C10_ErrorDelivered ==
  []C10_ErrorResult /\ [][C10_EvictStep /\ C10_NextStep]_vars

\* the originator and a joiner of a call whose operation returned (nil, E)
\* both hold (nil, E), and the call has been evicted
C10_Witness ==
  \E p \in Joiners :
    /\ Failed(attached[p]) /\ cpc[attached[p]] = "finished"
    /\ fn(attached[p])[1] = Nil
    /\ HasResult(p) /\ HasResult(attached[p])
    /\ Pair(Received(p)) = <<Nil, err[attached[p]]>>
    /\ pkey[p] \notin DOMAIN m

\* ---- C11 --------------------------------------------------------------------
\* the operation of call c has returned and c.wg.Done() has run
Returned(c) == cpc[c] \in {"signalled", "locked", "finished"}

\* C11: under fair scheduling, once the operation of a call has returned,
\* every caller attached to that call (blocked in Do, or holding a channel)
\* eventually has its result, whether or not the operations of other calls
\* on the key ever return: again and again no caller attached to a returned
\* call is left without its result.  (Returned and HasResult are stable, so
\* a caller left without its result would stay so for ever.)
\* caller p is attached to a call whose operation has returned and has not
\* got its result yet
Unreleased(p) ==
  p \in DOMAIN attached /\ Returned(attached[p]) /\ ~HasResult(p)

C11_WaitersReleased == []<>(\A p \in Procs : ~Unreleased(p))

\* a Do joiner has returned with its call's result while the operation of
\* another call on the same key is still running
C11_Witness ==
  \E p \in Joiners : \E c \in Originators :
    /\ p \in DOMAIN ret
    /\ c # attached[p] /\ pkey[c] = pkey[p]
    /\ cpc[c] = "fn"

\* ---- C12 --------------------------------------------------------------------
\* the call registered for k was created with validTime = 0
ZeroValidityRegistered(k) ==
  /\ k \in DOMAIN m /\ k \in DOMAIN latest
  /\ latest[k][1] = m[k] /\ latest[k][3]

C12_StaysJoinable ==
  \A k \in Keys : ZeroValidityRegistered(k) => Unexpired(k)

C12_JoinStep ==
  \A p \in Procs, k \in Keys :
    Enters(p, k) /\ ZeroValidityRegistered(k) => Joins(p, m[k])

\* C12: a call created with validTime = 0 is joinable at every clock value
\* for as long as it is registered: a caller that finds it registered joins
\* it and runs no operation.
C12_ZeroNeverExpires == []C12_StaysJoinable /\ [][C12_JoinStep]_vars

\* the clock has advanced to its last value, a call created with
\* validTime = 0 is registered, and a caller holds g.mu inside Do or DoChan
C12_Witness ==
  \E p \in Procs, k \in Keys :
    InCS(p) /\ ZeroValidityRegistered(k) /\ clock = MaxClock /\ clock > 0

\* ---- C13 --------------------------------------------------------------------
\* the step in which caller p creates a call for k with validTime # 0
CreatesTimed(p, k) ==
  Enters(p, k) /\ attached'[p] = p /\ ~latest'[k][3]

C13_FutureStep ==
  \A p \in Procs, k \in Keys :
    CreatesTimed(p, k) => k \in DOMAIN t' /\ t'[k] > Now

\* C13: the valid time stored for a call created with a nonzero validTime is
\* strictly greater than the clock reading at its creation, so that a caller
\* arriving at the same clock reading would join it.
C13_ExpiryInFuture == [][C13_FutureStep]_vars

\* ---- C14 --------------------------------------------------------------------
C14_EvictOwnStep ==
  \A c \in Procs : \A k \in DOMAIN m :
    CompleteStep(c) /\ m[k] # c => k \in DOMAIN m' /\ m'[k] = m[k]

\* C14: the completion handling of a call removes the registry entry of its
\* key only if the entry refers to that call; an entry that refers to a call
\* created later stays.
C14_EvictsOnlyOwnEntry == [][C14_EvictOwnStep]_vars

\* ---- C15 --------------------------------------------------------------------
\* C15: whenever g.mu is free, g.t has an entry for exactly the keys that
\* have an entry in g.m.
C15_SameKeys == ~mu => DOMAIN m = DOMAIN t

\* with the lock free: a key is registered in both maps after an earlier
\* call was evicted by its completion and a Forget has run
C15_Witness ==
  /\ ~mu /\ nforget > 0
  /\ DOMAIN m # {} /\ DOMAIN t # {}
  /\ \E c \in Procs : cpc[c] = "finished" /\ ~forgotten[c]

\* ---- C16 --------------------------------------------------------------------
\* the goroutines inside a critical section of g.mu
LockHolders ==
  Cardinality({p \in Procs : InCS(p)})
    + Cardinality({c \in Procs : cpc[c] = "locked"})
    + (IF fpc = "Forget" THEN 1 ELSE 0)

\* some critical section runs to its Unlock
Unlock ==
  \/ \E p \in Procs, k \in Keys : DoJoin(p, k) \/ DoChanJoin(p, k)
  \/ \E p \in Procs, k \in Keys, d \in Durations :
       DoCreate(p, k, d) \/ DoChanCreate(p, k, d)
  \/ \E c \in Procs : doCallComplete(c)
  \/ \E k \in Keys : Forget(k)

\* the next caller in arrival order
NextCaller(p) == pc[p] = "idle" /\ \A q \in Procs : q < p => pc[q] # "idle"

C16_NotBlockedByOperation ==
  /\ LockHolders = IF mu THEN 1 ELSE 0
  /\ \A c \in Procs :
       cpc[c] = "fn" =>
         /\ mu => ENABLED Unlock
         /\ ~mu /\ fpc = "idle" /\ nforget < MaxForgets => ENABLED ForgetLock
         /\ \A p \in Procs :
              ~mu /\ NextCaller(p) =>
                ENABLED DoLock(p) /\ ENABLED DoChanLock(p)
  /\ \A p \in Procs :
       pc[p] = "Wait" =>
         IF Returned(attached[p]) THEN ENABLED DoWait(p)
         ELSE cpc[attached[p]] = "fn"

C16_FreshStep ==
  \A p \in Procs, k \in Keys :
    Enters(p, k) /\ ~Unexpired(k) => Originates(p, k)

C17_FrozenStep ==
  \A c \in Procs : Returned(c) => dups'[c] = dups[c] /\ chans'[c] = chans[c]

\* C17: once the operation of a call has returned and c.wg.Done() has run,
\* no step changes the call's dups (or chans): no caller joins it any more.
C17_DupsReadOnlyAfterDone == [][C17_FrozenStep]_vars

\* ---- C18 --------------------------------------------------------------------
\* no operation is running and no completion handling is pending
Quiescent == \A c \in Procs : cpc[c] \in {"none", "finished"}

\* C18: a call whose completion handling has finished is not registered, and
\* when no operation runs and no completion is pending g.m and g.t are empty.
C18_NoEntryLeaks ==
  /\ \A c \in Procs :
       cpc[c] = "finished" => \A k \in DOMAIN m : m[k] # c
  /\ Quiescent => m = << >> /\ t = << >>

\* all is quiet after a call was forgotten, a call replaced an expired one
\* or followed the forgotten one, and every completion has run
C18_Witness ==
  /\ Quiescent /\ ~mu
  /\ \E c \in Originators, n \in Originators :
       /\ c # n /\ pkey[c] = pkey[n]
       /\ forgotten[c] /\ ~forgotten[n]
  /\ \E p \in Joiners : pc[p] = "chan"

\* ---- C19 --------------------------------------------------------------------
\* the number of places channel p takes in the c.chans of all calls
RECURSIVE Count(_, _)
Count(chs, p) ==
  IF chs = << >> THEN 0
  ELSE (IF Head(chs) = p THEN 1 ELSE 0) + Count(Tail(chs), p)

RECURSIVE Occurrences(_, _)
Occurrences(S, p) ==
  IF S = {} THEN 0
  ELSE LET c == CHOOSE x \in S : TRUE
       IN  Count(chans[c], p) + Occurrences(S \ {c}, p)

\* C19: every channel made by DoChan is in c.chans of exactly one call, once;
\* nothing is sent to it before that call's completion handling, and at most
\* one Result ever; so with g.mu held in doCall every send proceeds although
\* nobody receives, and the completion can run to its Unlock.
C19_SendsNeverBlock ==
  /\ \A p \in Procs :
       /\ Occurrences(Procs, p) = IF pc[p] = "chan" THEN 1 ELSE 0
       /\ Len(sink[p]) <= 1
  /\ \A c \in Procs :
       /\ cpc[c] # "finished" =>
            \A i \in 1..Len(chans[c]) : sink[chans[c][i]] = << >>
       /\ cpc[c] = "locked" =>
            CanSend(chans[c], sink) /\ ENABLED doCallComplete(c)

\* doCall holds g.mu with two channels to send to while an earlier call's
\* Result still sits unread in its channel
C19_Witness ==
  \E c \in Procs :
    /\ cpc[c] = "locked" /\ Len(chans[c]) = 2
    /\ \E p \in Procs : Len(sink[p]) = 1

TypeOK ==
  /\ clock \in 0..MaxClock
  /\ mu \in BOOLEAN
  /\ DOMAIN m \subseteq Keys
  /\ \A k \in DOMAIN m : m[k] \in Procs
  /\ DOMAIN attached \subseteq Procs
====
